---- MODULE Spec2Model ----
(***************************************************************************)
(* Fall-risk predictor form (src/app.py), a Streamlit script.              *)
(*                                                                         *)
(* A Streamlit script is executed from its first line to its last on the   *)
(* first page load and again on every user interaction; st.button          *)
(* returns True only in the run its press triggered, and widget values     *)
(* persist between runs.  One action of this model is one such run of the  *)
(* whole script; the state between actions is what survives a run (the     *)
(* widget values, the file on disk) plus what the last run computed and    *)
(* rendered.                                                               *)
(*                                                                         *)
(* Numbers are fixed-point integers: a widget value is counted in units    *)
(* of the widget's step (0.01 for the device fields, 0.1 for Height, ODI   *)
(* and VAS, 1 for Medication_Count) and a probability in thousandths, the  *)
(* precision the script prints.                                            *)
(***************************************************************************)
EXTENDS Integers, Sequences, FiniteSets, TLC

VARIABLES
    artifact,   \* the file catboost_fall_model.joblib on disk
    widgets,    \* the session's widget values, by the script's variable names
    runs,       \* number of script runs so far in this session
    loads,      \* number of times joblib.load returned a bundle
    bundle,     \* what lines 10-12 bound in the last run
    X_input,    \* the DataFrame line 119 built in the last run
    pressed,    \* value of st.button("Predict") in the last run
    screen,     \* what the last run rendered
    calls,      \* number of model.predict_proba invocations so far
    passed,     \* the DataFrames handed to predict_proba in the last run
    shown       \* every (input_dict, probability) pair displayed so far

vars == <<artifact, widgets, runs, loads, bundle, X_input, pressed, screen,
          calls, passed, shown>>

---------------------------------------------------------------------------
(* Bounds of the model *)

\* Script runs explored per session: the first render, five device-field
\* edits, and three further interactions.
MaxRuns == 9

\* Values tried for a device-measured number_input, in steps of 0.01.
DeviceValues == {-1, 0, 1}

---------------------------------------------------------------------------
(* Widgets, lines 21-97 *)

HeightMin == 800
HeightDefault == 1700
MedicationMax == 50
OdiDefault == 100
VasDefault == 20
DeviceDefault == 0

DeviceWidgets ==
    <<"ps_velocity", "ps_sway_area", "ps_sway_path", "w_velocity", "w_duration">>

OtherWidgets ==
    <<"gender_txt", "height_cm", "hypertension", "medication_count", "odi", "vas">>

WidgetNames == OtherWidgets \o DeviceWidgets

Range(s) == {s[i] : i \in DOMAIN s}

\* The label each device widget is rendered with, without its unit.
WidgetLabel(n) ==
    CASE n = "ps_velocity"  -> "Postural Stability Velocity"
      [] n = "ps_sway_area" -> "Postural Stability Sway Area"
      [] n = "ps_sway_path" -> "Postural Stability Sway Path"
      [] n = "w_velocity"   -> "Walking Velocity"
      [] n = "w_duration"   -> "Walking Duration"

\* The values a widget can be set to (a sample of its range that holds its
\* default, its minimum and, for the unbounded device fields, a negative).
WidgetValues(n) ==
    CASE n = "gender_txt"       -> {"Female", "Male"}
      [] n = "height_cm"        -> {HeightMin, HeightDefault}
      [] n = "hypertension"     -> {0, 1}
      [] n = "medication_count" -> {0, MedicationMax}
      [] n = "odi"              -> {0, OdiDefault}
      [] n = "vas"              -> {0, VasDefault}
      [] OTHER                  -> DeviceValues

WidgetDefaults ==
    [n \in Range(WidgetNames) |->
        CASE n = "gender_txt"       -> "Female"
          [] n = "height_cm"        -> HeightDefault
          [] n = "hypertension"     -> 0
          [] n = "medication_count" -> 0
          [] n = "odi"              -> OdiDefault
          [] n = "vas"              -> VasDefault
          [] OTHER                  -> DeviceDefault]

\* Line 25.
gender(w) == IF w["gender_txt"] = "Female" THEN 0 ELSE 1

---------------------------------------------------------------------------
(* The input row, lines 104-119 *)

\* The keys of input_dict in the order the literal writes them.
InputKeys ==
    <<"Gender", "Height", "Hypertension", "ODI", "VAS", "PS_Velocity",
      "PS_Sway_Area", "PS_Sway_Path", "W_Velocity", "W_Duration",
      "Medication_Count">>

input_dict(w) ==
    [k \in Range(InputKeys) |->
        CASE k = "Gender"           -> gender(w)
          [] k = "Height"           -> w["height_cm"]
          [] k = "Hypertension"     -> w["hypertension"]
          [] k = "ODI"              -> w["odi"]
          [] k = "VAS"              -> w["vas"]
          [] k = "PS_Velocity"      -> w["ps_velocity"]
          [] k = "PS_Sway_Area"     -> w["ps_sway_area"]
          [] k = "PS_Sway_Path"     -> w["ps_sway_path"]
          [] k = "W_Velocity"       -> w["w_velocity"]
          [] k = "W_Duration"       -> w["w_duration"]
          [] k = "Medication_Count" -> w["medication_count"]]

\* A one-row DataFrame: its column labels, the row's cells, and which cells
\* are NaN.  pd.DataFrame([d], columns=F) takes the columns named by F, in
\* F's order; a name that is no key of d gives a NaN cell.
EmptyFrame == [columns |-> <<>>, values |-> <<>>, isna |-> <<>>]

\* A frame built in the order the dict literal lists its keys, whatever F is.
DataFrameDictOrder(d, F) ==
    [columns |-> InputKeys,
     values  |-> [i \in 1..Len(InputKeys) |-> d[InputKeys[i]]],
     isna    |-> [i \in 1..Len(InputKeys) |-> FALSE]]

DataFrame(d, F) ==
    [columns |-> F,
     values  |-> [i \in 1..Len(F) |-> IF F[i] \in DOMAIN d THEN d[F[i]] ELSE 0],
     isna    |-> [i \in 1..Len(F) |-> F[i] \notin DOMAIN d]]

---------------------------------------------------------------------------
(* The model artifact and its loading, lines 9-12 *)

Reverse(s) == [i \in 1..Len(s) |-> s[Len(s) + 1 - i]]

\* Feature orders a bundle may declare.
FeatureOrders == {InputKeys, Reverse(InputKeys)}

\* The classifier is opaque to the script; it is modelled as the smallest
\* gradient-boosted model, one split on the column at position idx with a
\* raw leaf value (log-odds) on each side.
Classifiers ==
    { [idx |-> 5, thr |-> 0, lo |-> 0, hi |-> 1],
      [idx |-> 6, thr |-> 0, lo |-> -1, hi |-> 0] }

NoClassifier == [idx |-> 1, thr |-> 0, lo |-> 0, hi |-> 0]

\* What can be on disk: nothing, bytes joblib cannot read, or a pickled
\* dict with both, one or none of the keys "model" and "features".
Artifacts ==
    {[kind |-> "absent",  keys |-> {}, model |-> NoClassifier, features |-> <<>>],
     [kind |-> "corrupt", keys |-> {}, model |-> NoClassifier, features |-> <<>>]}
    \cup
    {[kind |-> "dict", keys |-> {"model", "features"}, model |-> m, features |-> f] :
        m \in Classifiers, f \in FeatureOrders}
    \cup
    {[kind |-> "dict", keys |-> {"model"}, model |-> m, features |-> <<>>] :
        m \in Classifiers}
    \cup
    {[kind |-> "dict", keys |-> {"features"}, model |-> NoClassifier, features |-> f] :
        f \in FeatureOrders}

\* Line 10: joblib.load raises unless the file is there and readable.
joblib_load_raises(a) == a.kind # "dict"

NotLoaded == [ok |-> FALSE, model |-> NoClassifier, FEATURES |-> <<>>]

\* A loader that falls back to the dict's own key order when the bundle
\* declares no feature list.
LoadBundleFallback(a) ==
    IF joblib_load_raises(a) \/ "model" \notin a.keys
    THEN NotLoaded
    ELSE [ok |-> TRUE, model |-> a.model,
          FEATURES |-> IF "features" \in a.keys THEN a.features ELSE InputKeys]

\* Lines 10-12: an exception in any of the three ends the run there.
LoadBundle(a) ==
    IF joblib_load_raises(a) \/ "model" \notin a.keys \/ "features" \notin a.keys
    THEN NotLoaded
    ELSE [ok |-> TRUE, model |-> a.model, FEATURES |-> a.features]

---------------------------------------------------------------------------
(* Validation, lines 126-142 *)

required_fields(w) ==
    <<  <<"Postural Stability Velocity", w["ps_velocity"]>>,
        <<"Postural Stability Sway Area", w["ps_sway_area"]>>,
        <<"Postural Stability Sway Path", w["ps_sway_path"]>>,
        <<"Walking Velocity", w["w_velocity"]>>,
        <<"Walking Duration", w["w_duration"]>>  >>

\* The names of a list of (name, value) pairs.
NamesOf(fields) == [i \in 1..Len(fields) |-> fields[i][1]]

\* Reports only the first offending field.
missingFirstOnly(w) ==
    LET all == NamesOf(SelectSeq(required_fields(w), LAMBDA f : f[2] = 0))
    IN  IF all = <<>> THEN <<>> ELSE <<all[1]>>

\* Treats a negative measurement as missing too.
missingNotPositive(w) ==
    NamesOf(SelectSeq(required_fields(w), LAMBDA f : f[2] <= 0))

\* Line 134.
missing(w) == NamesOf(SelectSeq(required_fields(w), LAMBDA f : f[2] = 0))

\* A handler that warns but goes on.
stopsNever(m) == FALSE

\* Lines 136-142: st.stop() ends the run when anything is missing.
stops(m) == Len(m) > 0

---------------------------------------------------------------------------
(* Prediction, lines 121 and 144-154 *)

threshold == 500

\* The logistic function at the raw values the classifiers use, in
\* thousandths.
Sigmoid(z) ==
    CASE z = -2 -> 119
      [] z = -1 -> 269
      [] z = 0  -> 500
      [] z = 1  -> 731
      [] z = 2  -> 881

\* The raw value of the leaf the row falls in; a NaN cell goes left.
RawFormulaVal(m, X) ==
    IF m.idx \in DOMAIN X.values /\ ~X.isna[m.idx] /\ X.values[m.idx] > m.thr
    THEN m.hi ELSE m.lo

\* model.predict_proba(X): one row per input row, one column per class.
predict_proba(m, X) ==
    LET p == Sigmoid(RawFormulaVal(m, X)) IN << <<1000 - p, p>> >>

\* Shows the probability as the percentage the caption announces.
proba_fall_percent(m, X) == 100 * predict_proba(m, X)[1][2]

\* A classifier that is updated by use: every earlier call of the session
\* has moved its raw output up by one step.
proba_fall_adaptive(m, X) ==
    LET z == RawFormulaVal(m, X) + calls
    IN  Sigmoid(IF z > 2 THEN 2 ELSE z)

\* Line 145: row 0, column 1.
proba_fall(m, X) == predict_proba(m, X)[1][2]

\* Compares strictly.
predStrict(p) == IF p > 500 THEN 1 ELSE 0

\* Line 146.
pred(p) == IF p >= 500 THEN 1 ELSE 0

\* Renders the low-risk banner whatever the label.
bannersLowAlways(k) ==
    (IF k = 1 THEN {"High Fall Risk"} ELSE {}) \cup {"Low Fall Risk"}

\* Lines 151-154.
banners(k) == IF k = 1 THEN {"High Fall Risk"} ELSE {"Low Fall Risk"}

---------------------------------------------------------------------------
(* One run of the script *)

Blank ==
    [exception |-> FALSE, form |-> FALSE, warning |-> <<>>,
     proba |-> <<>>, pred |-> <<>>, banners |-> {}]

\* The script from line 7 to line 154 with the widgets at w and the
\* button's value at b.
ScriptRun(w, b) ==
    LET B == LoadBundle(artifact)
        X == DataFrame(input_dict(w), B.FEATURES)
        m == missing(w)
        predicts == B.ok /\ b /\ ~stops(m)
        p == proba_fall(B.model, X)
    IN  /\ runs' = runs + 1
        /\ loads' = IF joblib_load_raises(artifact) THEN loads ELSE loads + 1
        /\ artifact' = artifact
        /\ widgets' = w
        /\ bundle' = B
        /\ pressed' = (B.ok /\ b)
        /\ X_input' = IF B.ok THEN X ELSE EmptyFrame
        /\ calls' = IF predicts THEN calls + 1 ELSE calls
        /\ passed' = IF predicts THEN {X} ELSE {}
        /\ shown' = IF predicts THEN shown \cup {<<input_dict(w), p>>} ELSE shown
        /\ screen' =
             [exception |-> ~B.ok,
              form      |-> B.ok,
              warning   |-> IF B.ok /\ b /\ Len(m) > 0 THEN m ELSE <<>>,
              proba     |-> IF predicts THEN <<p>> ELSE <<>>,
              pred      |-> IF predicts THEN <<pred(p)>> ELSE <<>>,
              banners   |-> IF predicts THEN banners(pred(p)) ELSE {}]

---------------------------------------------------------------------------
(* The session *)

Init ==
    /\ artifact \in Artifacts
    /\ widgets = WidgetDefaults
    /\ runs = 0
    /\ loads = 0
    /\ bundle = NotLoaded
    /\ X_input = EmptyFrame
    /\ pressed = FALSE
    /\ screen = Blank
    /\ calls = 0
    /\ passed = {}
    /\ shown = {}

\* The page is opened: the first run, with every widget at its default.
Startup ==
    /\ runs = 0
    /\ ScriptRun(widgets, FALSE)

\* The user changes one widget's value; Streamlit runs the script again.
ChangeWidget(n, v) ==
    /\ 0 < runs /\ runs < MaxRuns
    /\ screen.form
    /\ v # widgets[n]
    /\ ScriptRun([widgets EXCEPT ![n] = v], FALSE)

\* The user presses Predict: a run in which st.button returns True.
PressPredict ==
    /\ 0 < runs /\ runs < MaxRuns
    /\ screen.form
    /\ ScriptRun(widgets, TRUE)

\* The user asks for a rerun (the R key or the menu); widgets keep their
\* values and the button reads False.
Rerun ==
    /\ 0 < runs /\ runs < MaxRuns
    /\ ScriptRun(widgets, FALSE)

Next ==
    \/ Startup
    \/ \E n \in Range(WidgetNames) : \E v \in WidgetValues(n) : ChangeWidget(n, v)
    \/ PressPredict
    \/ Rerun

Spec == Init /\ [][Next]_vars

---------------------------------------------------------------------------
(* Properties *)

\* The device widgets whose value is zero.
DeviceZero(w) == {n \in Range(DeviceWidgets) : w[n] = 0}

DeviceLabels == {WidgetLabel(n) : n \in Range(DeviceWidgets)}

\* The widget a feature is read from.
FeatureWidget(k) ==
    CASE k = "Gender"           -> "gender_txt"
      [] k = "Height"           -> "height_cm"
      [] k = "Hypertension"     -> "hypertension"
      [] k = "ODI"              -> "odi"
      [] k = "VAS"              -> "vas"
      [] k = "PS_Velocity"      -> "ps_velocity"
      [] k = "PS_Sway_Area"     -> "ps_sway_area"
      [] k = "PS_Sway_Path"     -> "ps_sway_path"
      [] k = "W_Velocity"       -> "w_velocity"
      [] k = "W_Duration"       -> "w_duration"
      [] k = "Medication_Count" -> "medication_count"

\* The number the form holds for a feature.
FeatureValue(k) ==
    IF k = "Gender"
    THEN (IF widgets["gender_txt"] = "Male" THEN 1 ELSE 0)
    ELSE widgets[FeatureWidget(k)]

\* The artifact on disk is a bundle with both expected keys.
ArtifactUsable ==
    artifact.kind = "dict" /\ artifact.keys = {"model", "features"}

\* C1: when Predict is pressed with at least one device field at zero, the
\* run warns, and the warning lists the labels of the zero-valued device
\* fields, each once, and of no other field.
MissingListsExactlyZeroFields ==
    (pressed /\ DeviceZero(widgets) # {}) =>
        /\ screen.warning # <<>>
        /\ Range(screen.warning) = {WidgetLabel(n) : n \in DeviceZero(widgets)}
        /\ Len(screen.warning) = Cardinality(DeviceZero(widgets))

\* C1 witness: a press with two device fields at zero and three not.
SomeZeroSomeNot ==
    /\ pressed
    /\ Cardinality(DeviceZero(widgets)) = 2
    /\ Len(screen.warning) = 2

\* C2: predict_proba is invoked only in a run where Predict was pressed
\* and no device field is zero; a run that warns invokes nothing and
\* renders no probability, label or banner.
ClassifierOnlyAfterValidPress ==
    /\ passed # {} => (pressed /\ DeviceZero(widgets) = {})
    /\ (screen.proba # <<>> \/ screen.pred # <<>> \/ screen.banners # {})
          => passed # {}
    /\ screen.warning # <<>> =>
          /\ passed = {}
          /\ screen.proba = <<>>
          /\ screen.pred = <<>>
          /\ screen.banners = {}

\* C2 witness: a press that fails validation, in a session that has
\* predicted before.
WarnsAfterEarlierPrediction ==
    pressed /\ screen.warning # <<>> /\ calls > 0

\* C3: the frame handed to the classifier has the columns the bundle on
\* disk declares, in that order, and each cell holds the form's value for
\* its column.
FrameInFeatureOrder ==
    \A X \in passed :
        /\ X.columns = artifact.features
        /\ Len(X.values) = Len(artifact.features)
        /\ \A i \in 1..Len(X.columns) :
              ~X.isna[i] /\ X.values[i] = FeatureValue(X.columns[i])

\* C3 witness: a prediction under a bundle whose order is not the one the
\* dict is written in.
PredictsInOtherOrder ==
    /\ passed # {}
    /\ artifact.features # InputKeys
    /\ widgets["ps_velocity"] # widgets["w_duration"]

\* C4: the label shown is 1 when the probability shown is at least the
\* threshold and 0 otherwise.
LabelIffAtLeastThreshold ==
    screen.proba # <<>> =>
        /\ Len(screen.pred) = 1
        /\ screen.pred[1] \in {0, 1}
        /\ screen.pred[1] = 1 <=> screen.proba[1] >= threshold

\* C4 witness: a probability of exactly one half, labelled 1.
HalfIsFaller ==
    screen.proba = <<threshold>> /\ screen.pred = <<1>>

\* C5: a press with no device field at zero renders a probability, a
\* label and exactly one banner, the high-risk one for label 1 and the
\* low-risk one for label 0.
ExactlyOneBanner ==
    (pressed /\ DeviceZero(widgets) = {}) =>
        /\ screen.warning = <<>>
        /\ Len(screen.proba) = 1
        /\ Len(screen.pred) = 1
        /\ Cardinality(screen.banners) = 1
        /\ "High Fall Risk" \in screen.banners <=> screen.pred[1] = 1
        /\ "Low Fall Risk" \in screen.banners <=> screen.pred[1] = 0

\* C5 witness: a press that renders the high-risk banner alone.
HighRiskShown ==
    pressed /\ screen.banners = {"High Fall Risk"}

\* C6: the bundle is read from disk once in the life of the process.
LoadedExactlyOnce == loads <= 1

\* C7: with the artifact absent, unreadable or lacking a key, every run
\* ends in the exception: no form is rendered, no widget value changes,
\* the classifier is never invoked and nothing is predicted.
LoadFailureIsFatal ==
    ~ArtifactUsable =>
        /\ ~screen.form
        /\ runs > 0 => screen.exception
        /\ widgets = WidgetDefaults
        /\ ~pressed
        /\ calls = 0
        /\ passed = {}
        /\ shown = {}
        /\ screen.proba = <<>> /\ screen.pred = <<>> /\ screen.banners = {}

\* C7 witness: a second run under a bundle that lacks its feature list.
FailsAgainWithoutFeatures ==
    artifact.kind = "dict" /\ artifact.keys = {"model"} /\ runs >= 2

ValidationFailsIffDeviceZero ==
    pressed =>
        /\ screen.warning # <<>> <=> DeviceZero(widgets) # {}
        /\ Range(screen.warning) \subseteq DeviceLabels
        /\ DeviceZero(widgets) = {} => passed # {}

\* C10 witness: a prediction with a negative device value and zeros in
\* the other fields.
NegativeAndOtherZerosPredict ==
    /\ pressed /\ passed # {}
    /\ \E n \in Range(DeviceWidgets) : widgets[n] < 0
    /\ widgets["odi"] = 0 /\ widgets["medication_count"] = 0

====
